---- MODULE Spec2Model ----
(***************************************************************************)
(* BeaverScanner: the plate recognition pipeline (plate-recognition.ts),   *)
(* the HTTP routes with their WebSocket broadcast (routes.ts) and the      *)
(* in-memory store (storage.ts).                                           *)
(*                                                                         *)
(* Strings are sequences of one-character strings, confidences are in      *)
(* hundredths (0.60 is 60), detectedAt is the clock value in milliseconds. *)
(***************************************************************************)
EXTENDS Integers, Sequences, FiniteSets, TLC

VARIABLES
  plates,        \* MemStorage.plates: the record stored under key k is plates[k]
  currentId,     \* MemStorage.currentId
  now,           \* the value new Date() returns
  clients,       \* wss.clients, in insertion order
  readyState,    \* readyState of each connection
  inbox,         \* the messages each connection received
  route,         \* the route each request came in on
  pc,            \* position of each request in its handler
  stages,        \* the pipeline stages a scan request entered, in order
  plateRegion,   \* recognizeLicensePlate: const plateRegion
  recognitionResult, \* recognizeLicensePlate: const recognitionResult
  validationResult,  \* recognizeLicensePlate: const validationResult
  pipelineResult,    \* what recognizeLicensePlate returned (or raised)
  newPlate,      \* the route's const newPlate
  event,         \* the message the route handed to the broadcast loop
  response,      \* what the route answered
  microtasks,    \* continuations waiting behind `await storage.createLicensePlate`
  delivery,      \* per broadcast: the connections found open, the one whose send raised
  plateText,     \* the validator on its own: its argument
  validation,    \* the validator on its own: what it returned
  manualData,    \* the manual route's createLicensePlate argument for the string
  storeCalls,    \* the store on its own: the number of calls made
  lastCall,      \* the store on its own: the last call and its arguments
  returned,      \* the store on its own: what the last call returned
  pixel,         \* the threshold step on its own: one pixel of the image
  once,          \* the pixel after one pass of the step
  twice,         \* the pixel after a second pass
  randoms,       \* the recognizer on its own: the values Math.random() returns
  synthesized,   \* the recognizer on its own: what it returned
  hooks,         \* Scanner: the latest values of its state hooks and context
  rendered,      \* Scanner: the values the committed render closed over
  captureInterval, \* Scanner: the running interval and the flag it closed over
  outstanding,   \* Scanner: scan requests sent and not yet settled
  sent,          \* Scanner: scan requests sent so far
  lastTick       \* Scanner: what the last capture tick did, and in what state

vars == <<plates, currentId, now, clients, readyState, inbox, route, pc, stages,
          plateRegion, recognitionResult, validationResult, pipelineResult,
          newPlate, event, response, microtasks, delivery,
          plateText, validation, manualData, storeCalls, lastCall, returned,
          pixel, once, twice, randoms, synthesized,
          hooks, rendered, captureInterval, outstanding, sent, lastTick>>

storeVars == <<plates, currentId>>
wsVars == <<clients, readyState, inbox>>
pipelineVars == <<stages, plateRegion, recognitionResult, validationResult,
                  pipelineResult>>
routeVars == <<newPlate, event, response, microtasks, delivery>>
validatorVars == <<plateText, validation, manualData>>
callVars == <<storeCalls, lastCall, returned>>
imageVars == <<pixel, once, twice>>
recognizerVars == <<randoms, synthesized>>
scannerVars == <<hooks, rendered, captureInterval, outstanding, sent, lastTick>>
apartVars == <<validatorVars, callVars, imageVars, recognizerVars, scannerVars>>
programVars == <<storeVars, now, wsVars, route, pc, pipelineVars, routeVars>>

\* ---------------------------------------------------------------- bounds
MaxRequests == 2
MaxSubscribers == 2
MaxTime == 1
MaxStoreCalls == 3
MaxTail == 2
MaxPad == 6
MaxSpread == 1
MaxDraw == 2
MaxSent == 3

Requests == 1..MaxRequests
Subscribers == 1..MaxSubscribers

\* null, a value not yet assigned, a raised error: records, as every value
\* they are compared with is one
Null == [null |-> TRUE]
Unset == [unset |-> TRUE]
Raise == [raise |-> TRUE]

\* ------------------------------------------------------------ plate texts
ABC123 == <<"A", "B", "C", "-", "1", "2", "3">>
XYZ789 == <<"X", "Y", "Z", "-", "7", "8", "9">>
DEF456 == <<"D", "E", "F", "-", "4", "5", "6">>
GHI789 == <<"G", "H", "I", "-", "7", "8", "9">>
AB1230 == <<"A", "B", "1", "2", "3", "0">>

\* ------------------------------------------------------------- the store
\* {...base, ...over}: the later spread wins on every key it carries
Spread(base, over) ==
  [k \in (DOMAIN base) \cup (DOMAIN over) |->
     IF k \in DOMAIN over THEN over[k] ELSE base[k]]

initialPlates ==
  << [plateNumber |-> ABC123, region |-> "Quebec", status |-> "valid",
      detectionType |-> "automatic", details |-> "Plaque en regle"],
     [plateNumber |-> XYZ789, region |-> "Ontario", status |-> "expired",
      detectionType |-> "manual", details |-> "La plaque a expire"],
     [plateNumber |-> DEF456, region |-> "New York", status |-> "suspended",
      detectionType |-> "automatic", details |-> "La plaque est suspendue"],
     [plateNumber |-> GHI789, region |-> "Colombie-Britannique", status |-> "other",
      detectionType |-> "manual", details |-> "Information non disponible"] >>

\* const id = this.currentId++ leaves the counter one past the id it handed out
NextIdStuck(cur) == cur
NextId(cur) == cur + 1

\* const plate = { id, ...plateData, detectedAt: now }
BuildPlate(id, plateData, t) ==
  Spread(Spread([id |-> id], plateData), [detectedAt |-> t])

\* this.plates.set(id, plate): ids are handed out in key order, so a new key
\* is always the next position of the insertion order
MapSet(map, id, plate) ==
  IF id \in DOMAIN map THEN [map EXCEPT ![id] = plate] ELSE Append(map, plate)

\* createLicensePlate has no await: it runs to its return in one step
createLicensePlate(plateData) ==
  /\ plates' = MapSet(plates, currentId, BuildPlate(currentId, plateData, now))
  /\ currentId' = NextId(currentId)

\* return plate: the record that was stored
CreatedPlateOffByOne(plateData) == BuildPlate(currentId + 1, plateData, now)
CreatedPlate(plateData) == BuildPlate(currentId, plateData, now)

\* Array.from(this.plates.values()): insertion order
PlateValues == plates

getPlateById(id) == IF id \in DOMAIN plates THEN plates[id] ELSE Null

\* Array.prototype.find: the first element, in array order, that matches
Find(seq, plateNumber) ==
  LET hits == {i \in DOMAIN seq : seq[i].plateNumber = plateNumber}
  IN IF hits = {} THEN Null
     ELSE seq[CHOOSE i \in hits : \A j \in hits : i <= j]

getPlateByNumber(plateNumber) == Find(PlateValues, plateNumber)

\* Array.prototype.sort with (a, b) => b.detectedAt - a.detectedAt: a stable
\* sort, elements that compare equal keep their array order
RECURSIVE InsertDesc(_, _)
InsertDesc(sorted, p) ==
  IF sorted = <<>> THEN <<p>>
  ELSE IF Head(sorted).detectedAt >= p.detectedAt
       THEN <<Head(sorted)>> \o InsertDesc(Tail(sorted), p)
       ELSE <<p>> \o sorted

RECURSIVE SortDesc(_)
SortDesc(seq) ==
  IF seq = <<>> THEN <<>>
  ELSE InsertDesc(SortDesc(SubSeq(seq, 1, Len(seq) - 1)), seq[Len(seq)])

\* Array.prototype.slice(0, limit) for limit >= 0
Slice(seq, limit) == SubSeq(seq, 1, IF limit < Len(seq) THEN limit ELSE Len(seq))

getRecentPlates(limit) == Slice(SortDesc(PlateValues), limit)

\* seedInitialData: four createLicensePlate calls in one synchronous loop; the
\* detectedAt computed in the loop is not passed on, so each seed is stamped
\* with the clock at its call (the clock may tick once inside the loop)
RECURSIVE Seed(_, _)
Seed(n, tickAfter) ==
  IF n = 0 THEN <<>>
  ELSE Append(Seed(n - 1, tickAfter),
              BuildPlate(n, initialPlates[n], IF n > tickAfter THEN 1 ELSE 0))

InitStore(tickAfter) ==
  /\ plates = Seed(Len(initialPlates), tickAfter)
  /\ currentId = Len(initialPlates) + 1
  /\ now = IF tickAfter < Len(initialPlates) THEN 1 ELSE 0

InitProgram ==
  /\ \E tickAfter \in 1..Len(initialPlates) : InitStore(tickAfter)
  /\ clients = <<>>
  /\ readyState = [s \in Subscribers |-> "NONE"]
  /\ inbox = [s \in Subscribers |-> <<>>]
  /\ route = [r \in Requests |-> "none"]
  /\ pc = [r \in Requests |-> "Idle"]
  /\ stages = [r \in Requests |-> <<>>]
  /\ plateRegion = [r \in Requests |-> Unset]
  /\ recognitionResult = [r \in Requests |-> Unset]
  /\ validationResult = [r \in Requests |-> Unset]
  /\ pipelineResult = [r \in Requests |-> Unset]
  /\ newPlate = [r \in Requests |-> Unset]
  /\ event = [r \in Requests |-> Unset]
  /\ response = [r \in Requests |-> Unset]
  /\ microtasks = <<>>
  /\ delivery = [r \in Requests |-> Unset]

ValidatorIdle == plateText = <<>> /\ validation = Unset /\ manualData = Unset
StoreIdle == storeCalls = 0 /\ lastCall = Unset /\ returned = Unset
ImageIdle == pixel = Unset /\ once = Unset /\ twice = Unset
RecognizerIdle == randoms = <<>> /\ synthesized = Unset
InitialHooks ==
  [isScannerActive |-> FALSE, webSocketConnected |-> FALSE, isProcessing |-> FALSE]
ScannerIdle ==
  /\ hooks = InitialHooks
  /\ rendered = InitialHooks
  /\ captureInterval = Null
  /\ outstanding = 0
  /\ sent = 0
  /\ lastTick = Unset

InitApart ==
  ValidatorIdle /\ StoreIdle /\ ImageIdle /\ RecognizerIdle /\ ScannerIdle

Init == InitProgram /\ InitApart

\* the clock advances
Tick ==
  /\ now < MaxTime
  /\ now' = now + 1
  /\ UNCHANGED <<storeVars, wsVars, route, pc, pipelineVars, routeVars>>
  /\ UNCHANGED apartVars

\* ------------------------------------------------ the recognition stages
Buffer == [buffer |-> TRUE]

\* preprocessImage: decodes and binarises the image, or rethrows what failed
PreprocessOutcomes == {Buffer, Raise}

\* detectPlateRegion: the preprocessed image, or null when preprocessing threw
detectPlateRegionNoNull(preprocessed) == Buffer
detectPlateRegionRethrow(preprocessed) == preprocessed
detectPlateRegion(preprocessed) ==
  IF preprocessed = Raise THEN Null ELSE preprocessed

\* if (!plateRegion), if (!recognitionResult): null is falsy, an object is not
Falsy(value) == value = Null

\* DetectionResult values a recognizer can hand back (interface DetectionResult);
\* confidences in hundredths
DetectionResults ==
  { [plateNumber |-> ABC123, confidence |-> 90],
    [plateNumber |-> XYZ789, confidence |-> 60],
    [plateNumber |-> ABC123, confidence |-> 59],
    [plateNumber |-> XYZ789, confidence |-> 0] }

\* recognizePlateText resolves to a DetectionResult or to null; a recognizer
\* plugged in behind the same signature may also reject
RecognizerOutcomes == DetectionResults \cup {Null, Raise}

\* if (recognitionResult.confidence < 0.6)
Threshold == 60
BelowThresholdLax(confidence) == confidence < Threshold - 10
BelowThresholdOrAt(confidence) == confidence <= Threshold
BelowThreshold(confidence) == confidence < Threshold

NaN == -1
DigitValue ==
  [c \in {"0", "1", "2", "3", "4", "5", "6", "7", "8", "9"} |->
     CASE c = "0" -> 0 [] c = "1" -> 1 [] c = "2" -> 2 [] c = "3" -> 3
       [] c = "4" -> 4 [] c = "5" -> 5 [] c = "6" -> 6 [] c = "7" -> 7
       [] c = "8" -> 8 [] c = "9" -> 9]

\* charAt(0) in place of charAt(length - 1)
CharAtFirst(str, i) == IF 1 \in DOMAIN str THEN str[1] ELSE ""

\* String.prototype.charAt: the empty string outside the string
CharAt(str, i) == IF i + 1 \in DOMAIN str THEN str[i + 1] ELSE ""

\* parseInt of one character, radix 10
ParseInt(ch) == IF ch \in DOMAIN DigitValue THEN DigitValue[ch] ELSE NaN
isNaN(x) == x = NaN

\* the if / else-if chain on lastDigit, with "valid" starting at 8
StatusTableValidFrom8(lastDigit) ==
  IF isNaN(lastDigit)
    THEN [status |-> "other", details |-> "Information non disponible"]
  ELSE IF lastDigit >= 8
    THEN [status |-> "valid", details |-> "Plaque en regle"]
  ELSE IF lastDigit >= 4
    THEN [status |-> "expired", details |-> "La plaque a expire"]
  ELSE IF lastDigit >= 2
    THEN [status |-> "suspended", details |-> "La plaque est suspendue"]
  ELSE [status |-> "other", details |-> "Information non disponible"]

\* the if / else-if chain on lastDigit, with "expired" starting at 3
StatusTableExpiredFrom3(lastDigit) ==
  IF isNaN(lastDigit)
    THEN [status |-> "other", details |-> "Information non disponible"]
  ELSE IF lastDigit >= 7
    THEN [status |-> "valid", details |-> "Plaque en regle"]
  ELSE IF lastDigit >= 3
    THEN [status |-> "expired", details |-> "La plaque a expire"]
  ELSE IF lastDigit >= 2
    THEN [status |-> "suspended", details |-> "La plaque est suspendue"]
  ELSE [status |-> "other", details |-> "Information non disponible"]

\* the if / else-if chain on lastDigit, without its final else
StatusTableNoElse(lastDigit) ==
  IF isNaN(lastDigit)
    THEN [status |-> "other", details |-> "Information non disponible"]
  ELSE IF lastDigit >= 7
    THEN [status |-> "valid", details |-> "Plaque en regle"]
  ELSE IF lastDigit >= 4
    THEN [status |-> "expired", details |-> "La plaque a expire"]
  ELSE IF lastDigit >= 2
    THEN [status |-> "suspended", details |-> "La plaque est suspendue"]
  ELSE [status |-> "undefined", details |-> ""]

\* the if / else-if chain on lastDigit: status and details
StatusTable(lastDigit) ==
  IF isNaN(lastDigit)
    THEN [status |-> "other", details |-> "Information non disponible"]
  ELSE IF lastDigit >= 7
    THEN [status |-> "valid", details |-> "Plaque en regle"]
  ELSE IF lastDigit >= 4
    THEN [status |-> "expired", details |-> "La plaque a expire"]
  ELSE IF lastDigit >= 2
    THEN [status |-> "suspended", details |-> "La plaque est suspendue"]
  ELSE [status |-> "other", details |-> "Information non disponible"]

\* the length test with < in place of <=
RegionForShorter(plateNumber) ==
  IF Len(plateNumber) < 6 THEN "Quebec" ELSE "Ontario"

\* const region = plateNumber.length <= 6 ? "Québec" : "Ontario"
RegionFor(plateNumber) ==
  IF Len(plateNumber) <= 6 THEN "Quebec" ELSE "Ontario"

validatePlateInDatabase(plateNumber) ==
  LET region == RegionFor(plateNumber)
      lastChar == CharAt(plateNumber, Len(plateNumber) - 1)
      lastDigit == ParseInt(lastChar)
      verdict == StatusTable(lastDigit)
  IN [isValid |-> TRUE, status |-> verdict.status, region |-> region,
      details |-> verdict.details]

NotDetectedResult == [detected |-> FALSE]

\* a run that never hands its value back
DetectedResultNever(recognition, v) == Unset

\* recognizeLicensePlate: the value returned after validation
DetectedResult(recognition, v) ==
  [detected |-> TRUE,
   plateNumber |-> recognition.plateNumber,
   region |-> v.region, status |-> v.status, details |-> v.details,
   confidence |-> recognition.confidence]

\* recognizeLicensePlate: catch (error) { return { detected: false } }
Rethrown(error) == error
Caught(error) == NotDetectedResult

\* ------------------------------------------------------ recognizeLicensePlate
\* the run up to `await loadImage` has happened when the request is at Start;
\* preprocessImage settles: the image is binarised, or the failure travels
\* through detectPlateRegion's catch (null) to `if (!plateRegion)`
Preprocess(r) ==
  /\ pc[r] = "Start"
  /\ \E outcome \in PreprocessOutcomes :
       IF outcome # Raise
       THEN /\ pc' = [pc EXCEPT ![r] = "Preprocessed"]
            /\ stages' = [stages EXCEPT ![r] = Append(@, "Preprocessed")]
            /\ UNCHANGED <<plateRegion, pipelineResult>>
       ELSE /\ plateRegion' = [plateRegion EXCEPT ![r] = detectPlateRegion(outcome)]
            /\ IF Falsy(detectPlateRegion(outcome))
               THEN /\ pipelineResult' = [pipelineResult EXCEPT ![r] = NotDetectedResult]
                    /\ pc' = [pc EXCEPT ![r] = "NotDetected"]
                    /\ stages' = [stages EXCEPT ![r] = Append(@, "NotDetected")]
               ELSE /\ pc' = [pc EXCEPT ![r] = "RegionExtracted"]
                    /\ stages' = [stages EXCEPT ![r] = Append(@, "RegionExtracted")]
                    /\ UNCHANGED pipelineResult
  /\ UNCHANGED <<storeVars, now, wsVars, route, recognitionResult,
                 validationResult, routeVars>>
  /\ UNCHANGED apartVars

\* detectPlateRegion returns the preprocessed image, recognizeLicensePlate
\* finds it truthy and calls the recognizer
ExtractRegion(r) ==
  /\ pc[r] = "Preprocessed"
  /\ plateRegion' = [plateRegion EXCEPT ![r] = detectPlateRegion(Buffer)]
  /\ pc' = [pc EXCEPT ![r] = "RegionExtracted"]
  /\ stages' = [stages EXCEPT ![r] = Append(@, "RegionExtracted")]
  /\ UNCHANGED <<storeVars, now, wsVars, route, recognitionResult,
                 validationResult, pipelineResult, routeVars>>
  /\ UNCHANGED apartVars

\* the recognizer settles; with no await in between the run checks the result
\* for null, compares the confidence and calls the validator
Recognize(r) ==
  /\ pc[r] = "RegionExtracted"
  /\ \E outcome \in RecognizerOutcomes :
       IF outcome = Raise
       THEN /\ pipelineResult' = [pipelineResult EXCEPT ![r] = Caught(outcome)]
            /\ pc' = [pc EXCEPT ![r] = "NotDetected"]
            /\ stages' = [stages EXCEPT ![r] = Append(@, "NotDetected")]
            /\ UNCHANGED recognitionResult
       ELSE IF Falsy(outcome)
       THEN /\ recognitionResult' = [recognitionResult EXCEPT ![r] = Null]
            /\ pipelineResult' = [pipelineResult EXCEPT ![r] = NotDetectedResult]
            /\ pc' = [pc EXCEPT ![r] = "NotDetected"]
            /\ stages' = [stages EXCEPT ![r] = Append(@, "NotDetected")]
       ELSE IF BelowThreshold(outcome.confidence)
       THEN /\ recognitionResult' = [recognitionResult EXCEPT ![r] = outcome]
            /\ pipelineResult' = [pipelineResult EXCEPT ![r] = NotDetectedResult]
            /\ pc' = [pc EXCEPT ![r] = "NotDetected"]
            /\ stages' = [stages EXCEPT ![r] = @ \o <<"Recognized", "NotDetected">>]
       ELSE /\ recognitionResult' = [recognitionResult EXCEPT ![r] = outcome]
            /\ pc' = [pc EXCEPT ![r] = "ConfidenceGated"]
            /\ stages' = [stages EXCEPT ![r] = @ \o <<"Recognized", "ConfidenceGated">>]
            /\ UNCHANGED pipelineResult
  /\ UNCHANGED <<storeVars, now, wsVars, route, plateRegion, validationResult,
                 routeVars>>
  /\ UNCHANGED apartVars

\* the validator settles and the run assembles its result
Validate(r) ==
  /\ pc[r] = "ConfidenceGated"
  /\ LET v == validatePlateInDatabase(recognitionResult[r].plateNumber)
     IN /\ validationResult' = [validationResult EXCEPT ![r] = v]
        /\ pipelineResult' = [pipelineResult EXCEPT ![r] =
                               DetectedResult(recognitionResult[r], v)]
  /\ pc' = [pc EXCEPT ![r] = "Done"]
  /\ stages' = [stages EXCEPT ![r] = @ \o <<"Validated", "Done">>]
  /\ UNCHANGED <<storeVars, now, wsVars, route, plateRegion, recognitionResult,
                 routeVars>>
  /\ UNCHANGED apartVars

\* ------------------------------------------------------- the live feed
\* a connection is accepted: the server adds it to wss.clients
Connect(s) ==
  /\ microtasks = <<>>
  /\ readyState[s] = "NONE"
  /\ readyState' = [readyState EXCEPT ![s] = "OPEN"]
  /\ clients' = Append(clients, s)
  /\ UNCHANGED <<storeVars, now, inbox, route, pc, pipelineVars, routeVars>>
  /\ UNCHANGED apartVars

\* the transport closes; the connection is still a member of wss.clients
Disconnect(s) ==
  /\ microtasks = <<>>
  /\ readyState[s] = "OPEN"
  /\ readyState' = [readyState EXCEPT ![s] = "CLOSED"]
  /\ UNCHANGED <<storeVars, now, clients, inbox, route, pc, pipelineVars, routeVars>>
  /\ UNCHANGED apartVars

\* the server's close handler takes the connection out of wss.clients
Forget(s) ==
  /\ microtasks = <<>>
  /\ readyState[s] = "CLOSED"
  /\ readyState' = [readyState EXCEPT ![s] = "GONE"]
  /\ clients' = SelectSeq(clients, LAMBDA c : c # s)
  /\ UNCHANGED <<storeVars, now, inbox, route, pc, pipelineVars, routeVars>>
  /\ UNCHANGED apartVars

\* JSON.stringify of the message: the Date becomes its ISO string
JSONStringify(msg) ==
  [type |-> msg.type, data |-> [msg.data EXCEPT !.detectedAt = <<"ISO", @>>]]

\* if (client.readyState === WebSocket.OPEN)
ShouldSendAlways(state) == TRUE
ShouldSend(state) == state = "OPEN"

\* the positions of wss.clients whose send may raise: an open connection's
\* (0 stands for no send raising)
SendFaults == {0} \cup {i \in DOMAIN clients : readyState[clients[i]] = "OPEN"}

\* wss.clients.forEach(client => { if (open) client.send(JSON.stringify(msg)) }):
\* in insertion order, and a send that raises ends the loop
Reached(i, failAt) == failAt = 0 \/ i < failAt

\* what the loop met: the connections open when it ran and the connection
\* whose send raised (0 for none)
Observed(failAt) ==
  [open |-> {s \in Subscribers : \E i \in DOMAIN clients :
                                  clients[i] = s /\ readyState[s] = "OPEN"},
   raised |-> IF failAt = 0 THEN 0 ELSE clients[failAt]]

\* a broadcaster that keeps the event for every connection, present or future
BroadcastQueued(msg, failAt) ==
  [s \in Subscribers |-> Append(inbox[s], JSONStringify(msg))]

Broadcast(msg, failAt) ==
  [s \in Subscribers |->
     IF \E i \in DOMAIN clients :
          clients[i] = s /\ ShouldSend(readyState[s]) /\ Reached(i, failAt)
     THEN Append(inbox[s], JSONStringify(msg))
     ELSE inbox[s]]

\* --------------------------------------------------------- POST /api/scan
\* rec.key || b: b when the key is missing or holds the empty string
OrElse(rec, key, b) == IF key \notin DOMAIN rec \/ rec[key] = "" THEN b ELSE rec[key]

ScanBodies == {[image |-> "data"], [other |-> "x"]}

\* continuations run last in, first out
AwaitFirst(queue, r) == <<r>> \o queue

\* await on a resolved promise: the continuation goes to the end of the
\* microtask queue
Await(queue, r) == Append(queue, r)

\* await storage.createLicensePlate(...): the promise of the store behind
\* IStorage resolves with the record or rejects
CreateOutcomes == {"resolved", "rejected"}

\* a catch that answers as if nothing had been detected
ScanCatchNotDetected(error) == [code |-> 200, body |-> [detected |-> FALSE]]

\* catch (error) { res.status(500).json({ error: "Failed to process scan" }) }
ScanCatch(error) == [code |-> 500, body |-> [error |-> "Failed to process scan"]]

NextSlot(r) == pc[r] = "Idle" /\ \A q \in Requests : q < r => pc[q] # "Idle"

\* the handler up to its first await: no image is a 400, otherwise the
\* pipeline starts and waits for the image to load
ScanArrive(r, body) ==
  /\ microtasks = <<>>
  /\ NextSlot(r)
  /\ route' = [route EXCEPT ![r] = "scan"]
  /\ IF "image" \notin DOMAIN body
     THEN /\ response' = [response EXCEPT ![r] =
               [code |-> 400, body |-> [error |-> "Image data is required"]]]
          /\ pc' = [pc EXCEPT ![r] = "Responded"]
          /\ UNCHANGED stages
     ELSE /\ pc' = [pc EXCEPT ![r] = "Start"]
          /\ stages' = [stages EXCEPT ![r] = <<"Start">>]
          /\ UNCHANGED response
  /\ UNCHANGED <<storeVars, now, wsVars, plateRegion, recognitionResult,
                 validationResult, pipelineResult, newPlate, event, microtasks,
                 delivery>>
  /\ UNCHANGED apartVars

\* a route that treats a run without a detection as a failure
NotDetectedAnswerError(result) == ScanCatch(result)

\* return res.json({ detected: false })
NotDetectedAnswer(result) == [code |-> 200, body |-> [detected |-> FALSE]]

\* if (!recognitionResult.detected) return res.json({ detected: false });
\* a rejection of the pipeline would land in the route's catch
ScanNotDetected(r) ==
  /\ route[r] = "scan"
  /\ pc[r] = "NotDetected"
  /\ response' = [response EXCEPT ![r] =
       IF pipelineResult[r] = Raise
       THEN ScanCatch(pipelineResult[r])
       ELSE NotDetectedAnswer(pipelineResult[r])]
  /\ pc' = [pc EXCEPT ![r] = "Responded"]
  /\ UNCHANGED <<storeVars, now, wsVars, route, pipelineVars, newPlate, event,
                 microtasks, delivery>>
  /\ UNCHANGED apartVars

\* the scan route storing its records as manual entries
ScanPlateDataManual(result) ==
  [plateNumber |-> result.plateNumber,
   region |-> OrElse(result, "region", "Inconnu"),
   status |-> OrElse(result, "status", "other"),
   detectionType |-> "manual",
   details |-> OrElse(result, "details", "Information non disponible")]

ScanPlateData(result) ==
  [plateNumber |-> result.plateNumber,
   region |-> OrElse(result, "region", "Inconnu"),
   status |-> OrElse(result, "status", "other"),
   detectionType |-> "automatic",
   details |-> OrElse(result, "details", "Information non disponible")]

\* const newPlate = await storage.createLicensePlate({...}): the store runs to
\* its return, the handler's continuation is queued behind the resolved promise;
\* a rejected promise skips the broadcast and lands in the handler's catch
ScanPersist(r) ==
  /\ route[r] = "scan"
  /\ pc[r] = "Done"
  /\ \E outcome \in CreateOutcomes :
       IF outcome = "resolved"
       THEN /\ createLicensePlate(ScanPlateData(pipelineResult[r]))
            /\ newPlate' = [newPlate EXCEPT ![r] =
                 CreatedPlate(ScanPlateData(pipelineResult[r]))]
            /\ microtasks' = Await(microtasks, r)
            /\ pc' = [pc EXCEPT ![r] = "Created"]
            /\ UNCHANGED response
       ELSE /\ newPlate' = [newPlate EXCEPT ![r] = Raise]
            /\ response' = [response EXCEPT ![r] = ScanCatch(Raise)]
            /\ pc' = [pc EXCEPT ![r] = "Responded"]
            /\ UNCHANGED <<storeVars, microtasks>>
  /\ UNCHANGED <<now, wsVars, route, pipelineVars, event, delivery>>
  /\ UNCHANGED apartVars

\* the broadcast loop and the answer, in one synchronous run; a raising send
\* leaves the loop for the handler's catch
ScanPublish(r) ==
  /\ route[r] = "scan"
  /\ pc[r] = "Created"
  /\ microtasks # <<>> /\ Head(microtasks) = r
  /\ \E failAt \in SendFaults :
       LET msg == [type |-> "PLATE_DETECTED", data |-> newPlate[r]]
       IN /\ inbox' = Broadcast(msg, failAt)
          /\ event' = [event EXCEPT ![r] = msg]
          /\ delivery' = [delivery EXCEPT ![r] = Observed(failAt)]
          /\ response' = [response EXCEPT ![r] =
               IF failAt = 0
               THEN [code |-> 200,
                     body |-> Spread(Spread([detected |-> TRUE], newPlate[r]),
                               [confidence |-> pipelineResult[r].confidence])]
               ELSE ScanCatch(Raise)]
  /\ microtasks' = Tail(microtasks)
  /\ pc' = [pc EXCEPT ![r] = "Responded"]
  /\ UNCHANGED <<storeVars, now, clients, readyState, route, pipelineVars, newPlate>>
  /\ UNCHANGED apartVars

\* ----------------------------------------------------- POST /api/validate
ZodError == [zodError |-> TRUE]
InsertKeys == {"plateNumber", "region", "status", "detectionType", "details"}

\* insertLicensePlateSchema.parse: a body without a plate number is rejected,
\* keys outside the insert fields are dropped
insertLicensePlateSchemaParse(body) ==
  IF "plateNumber" \in DOMAIN body
  THEN [k \in (DOMAIN body) \cap InsertKeys |-> body[k]]
  ELSE ZodError

ValidateBodies ==
  { [plateNumber |-> XYZ789, region |-> "Canada", detectionType |-> "manual"],
    [plateNumber |-> AB1230, region |-> "USA", detectionType |-> "manual",
     status |-> "valid", id |-> 1],
    [region |-> "Canada", detectionType |-> "manual"] }

\* a catch without the ZodError case
ValidateCatchAlways500(error) ==
  [code |-> 500, body |-> [error |-> "Failed to validate plate"]]

\* catch (error): a ZodError is a 400, anything else a 500
ValidateCatch(error) ==
  IF error = ZodError
  THEN [code |-> 400, body |-> [error |-> "Invalid plate data"]]
  ELSE [code |-> 500, body |-> [error |-> "Failed to validate plate"]]

\* the route's own copy of the status table
ManualVerdict(plateNumber) ==
  LET lastChar == CharAt(plateNumber, Len(plateNumber) - 1)
      lastDigit == ParseInt(lastChar)
  IN CASE isNaN(lastDigit) ->
            [status |-> "other", details |-> "Information non disponible"]
       [] ~isNaN(lastDigit) /\ lastDigit >= 7 ->
            [status |-> "valid", details |-> "Plaque en regle"]
       [] ~isNaN(lastDigit) /\ lastDigit < 7 /\ lastDigit >= 4 ->
            [status |-> "expired", details |-> "La plaque a expire"]
       [] ~isNaN(lastDigit) /\ lastDigit < 4 /\ lastDigit >= 2 ->
            [status |-> "suspended", details |-> "La plaque est suspendue"]
       [] OTHER ->
            [status |-> "other", details |-> "Information non disponible"]

\* { status, details, ...plateData }: the fields of the body win
ValidatePlateDataBodyWins(plateData) ==
  Spread(ManualVerdict(plateData.plateNumber), plateData)

\* { ...plateData, status, details }
ValidatePlateData(plateData) == Spread(plateData, ManualVerdict(plateData.plateNumber))

\* the handler up to its first await: parse (a ZodError is a 400), derive the
\* status, call the store; a rejected promise lands in the handler's catch
ValidateArrive(r, body) ==
  /\ microtasks = <<>>
  /\ NextSlot(r)
  /\ route' = [route EXCEPT ![r] = "validate"]
  /\ LET plateData == insertLicensePlateSchemaParse(body)
     IN IF plateData = ZodError
        THEN /\ response' = [response EXCEPT ![r] = ValidateCatch(plateData)]
             /\ pc' = [pc EXCEPT ![r] = "Responded"]
             /\ UNCHANGED <<storeVars, newPlate, microtasks>>
        ELSE \E outcome \in CreateOutcomes :
               IF outcome = "resolved"
               THEN /\ createLicensePlate(ValidatePlateData(plateData))
                    /\ newPlate' = [newPlate EXCEPT ![r] =
                         CreatedPlate(ValidatePlateData(plateData))]
                    /\ microtasks' = Await(microtasks, r)
                    /\ pc' = [pc EXCEPT ![r] = "Created"]
                    /\ UNCHANGED response
               ELSE /\ newPlate' = [newPlate EXCEPT ![r] = Raise]
                    /\ response' = [response EXCEPT ![r] = ValidateCatch(Raise)]
                    /\ pc' = [pc EXCEPT ![r] = "Responded"]
                    /\ UNCHANGED <<storeVars, microtasks>>
  /\ UNCHANGED <<now, wsVars, pipelineVars, event, delivery>>
  /\ UNCHANGED apartVars

ValidatePublish(r) ==
  /\ route[r] = "validate"
  /\ pc[r] = "Created"
  /\ microtasks # <<>> /\ Head(microtasks) = r
  /\ \E failAt \in SendFaults :
       LET msg == [type |-> "PLATE_VALIDATED", data |-> newPlate[r]]
       IN /\ inbox' = Broadcast(msg, failAt)
          /\ event' = [event EXCEPT ![r] = msg]
          /\ delivery' = [delivery EXCEPT ![r] = Observed(failAt)]
          /\ response' = [response EXCEPT ![r] =
               IF failAt = 0
               THEN [code |-> 200, body |-> newPlate[r]]
               ELSE ValidateCatch(Raise)]
  /\ microtasks' = Tail(microtasks)
  /\ pc' = [pc EXCEPT ![r] = "Responded"]
  /\ UNCHANGED <<storeVars, now, clients, readyState, route, pipelineVars, newPlate>>
  /\ UNCHANGED apartVars

Next ==
  \/ Tick
  \/ \E s \in Subscribers : Connect(s) \/ Disconnect(s) \/ Forget(s)
  \/ \E r \in Requests : \E body \in ScanBodies : ScanArrive(r, body)
  \/ \E r \in Requests : Preprocess(r) \/ ExtractRegion(r) \/ Recognize(r) \/ Validate(r)
  \/ \E r \in Requests : ScanNotDetected(r) \/ ScanPersist(r) \/ ScanPublish(r)
  \/ \E r \in Requests : \E body \in ValidateBodies : ValidateArrive(r, body)
  \/ \E r \in Requests : ValidatePublish(r)

Spec == Init /\ [][Next]_vars

\* ------------------------------------------- the store called on its own
\* what a caller may hand to IStorage.createLicensePlate at run time: the
\* InsertLicensePlate fields, possibly with further keys
InsertFields ==
  [plateNumber |-> ABC123, region |-> "Quebec", status |-> "suspended",
   detectionType |-> "manual", details |-> "La plaque est suspendue"]

StoreInputs ==
  { InsertFields,
    Spread(InsertFields, [plateNumber |-> AB1230]),
    Spread(InsertFields, [id |-> 1]),
    Spread(InsertFields, [id |-> 9]),
    Spread(InsertFields, [detectedAt |-> 0]),
    Spread(InsertFields, [id |-> 2, detectedAt |-> 7]) }

\* the arguments the two routes build for createLicensePlate
RoutePlateData ==
  {ScanPlateData(DetectedResult(d, validatePlateInDatabase(d.plateNumber))) :
     d \in {d \in DetectionResults : ~BelowThreshold(d.confidence)}}
  \cup
  {ValidatePlateData(insertLicensePlateSchemaParse(body)) :
     body \in {b \in ValidateBodies : insertLicensePlateSchemaParse(b) # ZodError}}

StoreCreate(plateData) ==
  /\ storeCalls < MaxStoreCalls
  /\ createLicensePlate(plateData)
  /\ storeCalls' = storeCalls + 1
  /\ lastCall' = [op |-> "create", plateData |-> plateData]
  /\ returned' = CreatedPlate(plateData)
  /\ UNCHANGED <<now, wsVars, route, pc, pipelineVars, routeVars, validatorVars,
                 imageVars, recognizerVars, scannerVars>>

\* this.plates.set(id, data): the given fields alone
UpdatedPlateDataOnly(plate, data) == data

\* { ...data, ...plate }: the stored fields win
UpdatedPlateOldWins(plate, data) == Spread(data, plate)

\* const updatedPlate = { ...plate, ...data }
UpdatedPlate(plate, data) == Spread(plate, data)

\* updatePlate: undefined for an id without a record, otherwise the overlaid
\* record is stored under the id and returned
updatePlate(id, data) ==
  /\ plates' = IF Falsy(getPlateById(id)) THEN plates
               ELSE MapSet(plates, id, UpdatedPlate(getPlateById(id), data))
  /\ UNCHANGED currentId

UpdateReturn(id, data) ==
  IF Falsy(getPlateById(id)) THEN Null ELSE UpdatedPlate(getPlateById(id), data)

\* Partial<InsertLicensePlate>: any subset of the insert fields
NoFields == [k \in {} |-> ""]
UpdateInputs ==
  { NoFields,
    [status |-> "expired", details |-> "La plaque a expire"],
    [plateNumber |-> AB1230] }

StoreUpdate(id, data) ==
  /\ storeCalls < MaxStoreCalls
  /\ updatePlate(id, data)
  /\ storeCalls' = storeCalls + 1
  /\ lastCall' = [op |-> "update", id |-> id, data |-> data]
  /\ returned' = UpdateReturn(id, data)
  /\ UNCHANGED <<now, wsVars, route, pc, pipelineVars, routeVars, validatorVars,
                 imageVars, recognizerVars, scannerVars>>

NextStore ==
  \/ Tick
  \/ \E plateData \in StoreInputs \cup RoutePlateData : StoreCreate(plateData)
  \/ \E id \in 1..(Len(plates) + 1) : \E data \in UpdateInputs : StoreUpdate(id, data)

SpecStore == Init /\ [][NextStore]_vars

\* ------------------------------------------------- the pipeline runs alone
\* every await of a run is on a promise that settles (the image loads or
\* fails to, the recognizer and the validator return), and the event loop runs
\* the continuation of a settled promise
NextPipeline ==
  \/ \E r \in Requests : \E body \in ScanBodies : ScanArrive(r, body)
  \/ \E r \in Requests : Preprocess(r) \/ ExtractRegion(r) \/ Recognize(r) \/ Validate(r)

PipelineFairness ==
  \A r \in Requests :
    /\ WF_vars(Preprocess(r))
    /\ WF_vars(ExtractRegion(r))
    /\ WF_vars(Recognize(r))
    /\ WF_vars(Validate(r))

SpecPipeline == Init /\ [][NextPipeline]_vars /\ PipelineFairness

\* ------------------------------------------------- the validator on its own
\* plate strings: up to MaxPad filler characters, then up to MaxTail characters
\* drawn from the ten digits, a letter and the separator
Chars == DOMAIN DigitValue \cup {"A", "-"}
Tails == UNION {[1..n -> Chars] : n \in 0..MaxTail}
Pad(n) == [i \in 1..n |-> "A"]
PlateTexts == {Pad(n) \o tail : n \in 0..MaxPad, tail \in Tails}

InitValidator ==
  /\ InitProgram
  /\ plateText \in PlateTexts
  /\ validation = Unset
  /\ manualData = Unset
  /\ StoreIdle /\ ImageIdle /\ RecognizerIdle /\ ScannerIdle

ValidatorCall ==
  /\ validation = Unset
  /\ validation' = validatePlateInDatabase(plateText)
  /\ UNCHANGED <<programVars, plateText, manualData, callVars, imageVars,
                 recognizerVars, scannerVars>>

\* request bodies for the string: the client's fields alone, or with a status
\* and details of the sender's choosing
ManualBodies(plateNumber) ==
  { [plateNumber |-> plateNumber, region |-> "Canada", detectionType |-> "manual"],
    [plateNumber |-> plateNumber, region |-> "USA", detectionType |-> "manual",
     status |-> "valid", details |-> "Plaque en regle"],
    [plateNumber |-> plateNumber, region |-> "USA", detectionType |-> "manual",
     status |-> "stolen"] }

\* POST /api/validate up to the argument it hands to createLicensePlate
ManualCall ==
  /\ manualData = Unset
  /\ \E body \in ManualBodies(plateText) :
       manualData' = ValidatePlateData(insertLicensePlateSchemaParse(body))
  /\ UNCHANGED <<programVars, plateText, validation, callVars, imageVars,
                 recognizerVars, scannerVars>>

NextValidator == ValidatorCall \/ ManualCall

SpecValidator == InitValidator /\ [][NextValidator]_vars

\* -------------------------------------------- the threshold step on its own
\* channel values: the two ends and the values around the threshold
threshold == 128
Levels == {0, 255} \cup ((threshold - MaxSpread)..(threshold + MaxSpread))
Alphas == {0, 128, 255}
Pixels == [r : Levels, g : Levels, b : Levels, a : Alphas]

\* gray = 0.299 r + 0.587 g + 0.114 b, in thousandths
Gray(px) == 299 * px.r + 587 * px.g + 114 * px.b

\* the step with its two output values exchanged
BinariseInverted(px) ==
  LET value == IF Gray(px) > threshold * 1000 THEN 0 ELSE 255
  IN [r |-> value, g |-> value, b |-> value, a |-> px.a]

\* value = gray > threshold ? 255 : 0, written to the three colour channels;
\* the alpha channel is left as it is
Binarise(px) ==
  LET value == IF Gray(px) > threshold * 1000 THEN 255 ELSE 0
  IN [r |-> value, g |-> value, b |-> value, a |-> px.a]

InitImage ==
  /\ InitProgram
  /\ pixel \in Pixels
  /\ once = Unset
  /\ twice = Unset
  /\ ValidatorIdle /\ StoreIdle /\ RecognizerIdle /\ ScannerIdle

FirstPass ==
  /\ once = Unset
  /\ once' = Binarise(pixel)
  /\ UNCHANGED <<programVars, pixel, twice, validatorVars, callVars,
                 recognizerVars, scannerVars>>

SecondPass ==
  /\ once # Unset
  /\ twice = Unset
  /\ twice' = Binarise(once)
  /\ UNCHANGED <<programVars, pixel, once, validatorVars, callVars,
                 recognizerVars, scannerVars>>

NextImage == FirstPass \/ SecondPass

SpecImage == InitImage /\ [][NextImage]_vars

\* ------------------------------------------ the reference recognizer on its own
\* Math.random() returns x with 0 <= x < 1: x is draw / Scale, the draws being
\* 0, the largest value below 1 and equally spaced values in between
Scale == 10000
Draws == {(i * Scale) \div MaxDraw : i \in 0..(MaxDraw - 1)} \cup {Scale - 1}

letters ==
  <<"A", "B", "C", "D", "E", "F", "G", "H", "I", "J", "K", "L", "M",
    "N", "O", "P", "Q", "R", "S", "T", "U", "V", "W", "X", "Y", "Z">>
numbers == <<"0", "1", "2", "3", "4", "5", "6", "7", "8", "9">>

\* str[Math.floor(Math.random() * str.length)]
Pick(str, draw) == str[((draw * Len(str)) \div Scale) + 1]

\* a confidence starting at 0.5
ConfidenceFromHalf(draw) == 50 * Scale + 45 * draw

\* 0.6 + Math.random() * 0.35, in units of 1 / (100 * Scale)
Confidence(draw) == 60 * Scale + 35 * draw

\* the confidence in whole hundredths, rounded down: comparing it with a whole
\* number of hundredths gives what comparing the confidence itself gives
Hundredths(confidence) == confidence \div Scale

\* recognizePlateText: three letters, the separator, three digits, a confidence
recognizePlateText(draws) ==
  [plateNumber |-> <<Pick(letters, draws[1]), Pick(letters, draws[2]),
                     Pick(letters, draws[3]), "-", Pick(numbers, draws[4]),
                     Pick(numbers, draws[5]), Pick(numbers, draws[6])>>,
   confidence |-> Confidence(draws[7])]

InitRecognizer ==
  /\ InitProgram
  /\ randoms \in [1..7 -> Draws]
  /\ synthesized = Unset
  /\ ValidatorIdle /\ StoreIdle /\ ImageIdle /\ ScannerIdle

RecognizerCall ==
  /\ synthesized = Unset
  /\ synthesized' = recognizePlateText(randoms)
  /\ UNCHANGED <<programVars, randoms, validatorVars, callVars, imageVars,
                 scannerVars>>

NextRecognizer == RecognizerCall

SpecRecognizer == InitRecognizer /\ [][NextRecognizer]_vars

\* ------------------------------------------------ the scanner client alone
\* The Scanner component between renders. `hooks` holds what its state hooks
\* and the plate context will hand to the next render, `rendered` what the
\* committed render closed over. The capture effect runs after a commit whose
\* dependencies changed: its cleanup clears the interval of the previous
\* render and its body may install a new one, whose callback reads the
\* isProcessing of the render that installed it.
Frame == [image |-> "data:image/jpeg"]

\* the camera element is part of the tree only while the scanner is active
WebcamMounted(r) == r.isScannerActive

\* webcamRef.current?.getScreenshot(): a frame, or null while the camera has
\* none to give; undefined (falsy as well) when no camera is mounted
getScreenshot(r) == IF WebcamMounted(r) THEN {Frame, Null} ELSE {Null}

\* what the effect of a render leaves running
Effect(r) ==
  IF r.isScannerActive /\ WebcamMounted(r) /\ r.webSocketConnected
  THEN [isProcessing |-> r.isProcessing]
  ELSE Null

scannerApart == <<validatorVars, callVars, imageVars, recognizerVars>>

toggleScanner ==
  /\ hooks' = [hooks EXCEPT !.isScannerActive = ~rendered.isScannerActive]
  /\ hooks' # hooks
  /\ UNCHANGED <<programVars, scannerApart, rendered, captureInterval,
                 outstanding, sent, lastTick>>

\* the plate context reports the live connection opened or closed
ConnectionChange ==
  /\ hooks' = [hooks EXCEPT !.webSocketConnected = ~hooks.webSocketConnected]
  /\ UNCHANGED <<programVars, scannerApart, rendered, captureInterval,
                 outstanding, sent, lastTick>>

\* a render commits the pending values; the effects of the previous commit
\* have been flushed by then
Render ==
  /\ hooks # rendered
  /\ captureInterval = Effect(rendered)
  /\ rendered' = hooks
  /\ UNCHANGED <<programVars, scannerApart, hooks, captureInterval,
                 outstanding, sent, lastTick>>

\* the capture effect of the committed render: cleanup, then body
RunEffect ==
  /\ captureInterval # Effect(rendered)
  /\ captureInterval' = Effect(rendered)
  /\ UNCHANGED <<programVars, scannerApart, hooks, rendered,
                 outstanding, sent, lastTick>>

TickRecord(sends) ==
  [sends |-> sends,
   outstanding |-> outstanding,
   isScannerActive |-> rendered.isScannerActive,
   webSocketConnected |-> rendered.webSocketConnected]

\* one firing of the interval callback, up to its await
CaptureTick ==
  /\ captureInterval # Null
  /\ \E imageSrc \in getScreenshot(rendered) :
       IF captureInterval.isProcessing \/ imageSrc = Null
       THEN /\ lastTick' = TickRecord(FALSE)
            /\ UNCHANGED <<hooks, outstanding, sent>>
       ELSE /\ sent < MaxSent
            /\ hooks' = [hooks EXCEPT !.isProcessing = TRUE]
            /\ outstanding' = outstanding + 1
            /\ sent' = sent + 1
            /\ lastTick' = TickRecord(TRUE)
  /\ UNCHANGED <<programVars, scannerApart, rendered, captureInterval>>

\* the request resolves or rejects; either way the finally block runs
RequestSettles ==
  /\ outstanding > 0
  /\ outstanding' = outstanding - 1
  /\ hooks' = [hooks EXCEPT !.isProcessing = FALSE]
  /\ UNCHANGED <<programVars, scannerApart, rendered, captureInterval,
                 sent, lastTick>>

InitScanner ==
  /\ InitProgram
  /\ ScannerIdle
  /\ ValidatorIdle /\ StoreIdle /\ ImageIdle /\ RecognizerIdle

NextScanner ==
  \/ toggleScanner
  \/ ConnectionChange
  \/ Render
  \/ RunEffect
  \/ CaptureTick
  \/ RequestSettles

SpecScanner == InitScanner /\ [][NextScanner]_vars

\* ------------------------------------------------------------ properties
Range(seq) == {seq[i] : i \in DOMAIN seq}
Recognized(r) == recognitionResult[r] \in DetectionResults
Received(s, r) == JSONStringify(event[r]) \in Range(inbox[s])
Persisted(r) == newPlate[r] \notin {Unset, Raise}
CreateFailed(r) == newPlate[r] = Raise
Published(r) == event[r] # Unset

\* C1: a recognizer result with a confidence strictly below 0.60 makes the run
\* return {detected: false}, whatever its text, and the validator is not called
C1_BelowThresholdNotDetected ==
  \A r \in Requests :
    (Recognized(r) /\ recognitionResult[r].confidence < 60) =>
      /\ pipelineResult[r] = [detected |-> FALSE]
      /\ validationResult[r] = Unset
      /\ ~Persisted(r)

C1_Witness ==
  \E r \in Requests :
    /\ Recognized(r) /\ recognitionResult[r].confidence = 59
    /\ pc[r] = "Responded"
    /\ response[r] = [code |-> 200, body |-> [detected |-> FALSE]]

\* C2: no failure of a stage leaves recognizeLicensePlate as an exception: a run
\* in which preprocessing or recognition raised ends with {detected: false}
C2_NoExceptionEscapes ==
  \A r \in Requests :
    /\ pipelineResult[r] # Raise
    /\ pc[r] = "NotDetected" => pipelineResult[r] = [detected |-> FALSE]
    /\ (route[r] = "scan" /\ pc[r] = "Responded" /\ ~Persisted(r)
          /\ ~CreateFailed(r) /\ stages[r] # <<>>)
         => response[r] = [code |-> 200, body |-> [detected |-> FALSE]]

\* the recognizer raised (no result was assigned after the region was found)
C2_Witness ==
  \E r \in Requests :
    /\ stages[r] = <<"Start", "Preprocessed", "RegionExtracted", "NotDetected">>
    /\ recognitionResult[r] = Unset
    /\ response[r] = [code |-> 200, body |-> [detected |-> FALSE]]

\* C3: the stages of a run are entered in the order Start, Preprocessed,
\* RegionExtracted, Recognized, ConfidenceGated, Validated, Done, each only after
\* all earlier ones, a run leaving this order only to end in NotDetected; the
\* recognizer has run only with a region, the validator only past the gate
StageOrder ==
  <<"Start", "Preprocessed", "RegionExtracted", "Recognized", "ConfidenceGated",
    "Validated", "Done">>

IsPrefix(p, q) == Len(p) <= Len(q) /\ SubSeq(q, 1, Len(p)) = p

C3_StagesInOrder ==
  \A r \in Requests :
    /\ \/ IsPrefix(stages[r], StageOrder)
       \/ /\ stages[r] # <<>>
          /\ stages[r][Len(stages[r])] = "NotDetected"
          /\ Len(stages[r]) >= 2
          /\ IsPrefix(SubSeq(stages[r], 1, Len(stages[r]) - 1), StageOrder)
    /\ recognitionResult[r] # Unset => plateRegion[r] = Buffer
    /\ validationResult[r] # Unset =>
         (Recognized(r) /\ recognitionResult[r].confidence >= 60)
    /\ (pipelineResult[r] # Unset /\ pipelineResult[r] # [detected |-> FALSE])
         => stages[r] = StageOrder

C3_Witness ==
  \E r, q \in Requests :
    /\ stages[r] = StageOrder /\ pipelineResult[r].detected
    /\ stages[q] = <<"Start", "Preprocessed", "RegionExtracted", "Recognized",
                     "NotDetected">>

\* C4: a request publishes only after its create, its event carries the record
\* create returned, which is the record stored under that id; no request creates
\* more than one record, no two requests share one, every message a connection
\* holds is the event of one request, and it holds it once
C4_CreateThenPublishOnce ==
  /\ \A r \in Requests :
       /\ Published(r) =>
            /\ Persisted(r)
            /\ event[r].data = newPlate[r]
            /\ getPlateById(event[r].data.id) = newPlate[r]
       /\ (Persisted(r) /\ pc[r] = "Responded" /\ response[r].code = 200) =>
            Cardinality({q \in Requests :
                           Published(q) /\ event[q].data.id = newPlate[r].id}) = 1
       /\ (pc[r] = "Created") => (Persisted(r) /\ ~Published(r))
  /\ \A r, q \in Requests :
       (r # q /\ Persisted(r) /\ Persisted(q)) => newPlate[r].id # newPlate[q].id
  /\ Len(plates) = Len(initialPlates) + Cardinality({r \in Requests : Persisted(r)})
  /\ \A s \in Subscribers :
       /\ \A i \in DOMAIN inbox[s] :
            \E r \in Requests :
              Published(r) /\ inbox[s][i] = JSONStringify(event[r])
       /\ \A i, j \in DOMAIN inbox[s] :
            i # j => inbox[s][i].data.id # inbox[s][j].data.id

C4_Witness ==
  \E r, q \in Requests : \E s \in Subscribers :
    /\ route[r] = "scan" /\ route[q] = "validate"
    /\ Published(r) /\ Published(q)
    /\ response[r].code = 200 /\ response[q].code = 200
    /\ Received(s, r) /\ Received(s, q)

\* C5: whatever the interleaving of the requests, the stored records carry
\* pairwise distinct ids, increasing in the order of the createLicensePlate calls
C5_IdsDistinctIncreasing ==
  /\ \A i, j \in DOMAIN plates : i < j => plates[i].id < plates[j].id
  /\ \A i \in DOMAIN microtasks : \A j \in DOMAIN microtasks :
       i < j => newPlate[microtasks[i]].id < newPlate[microtasks[j]].id
  /\ \A r \in Requests : Persisted(r) => newPlate[r].id < currentId

\* two requests are both between their create and their continuation
C5_Witness ==
  /\ Len(microtasks) = 2
  /\ newPlate[microtasks[1]].id = 5
  /\ newPlate[microtasks[2]].id = 6

C7_DeliveryFailureSwallowed ==
  \A r \in Requests :
    Published(r) =>
      /\ response[r].code = 200
      /\ \A s \in delivery[r].open : s # delivery[r].raised => Received(s, r)

\* C8: getPlateByNumber returns the most recently created record carrying the
\* number, and null when no record carries it
PlateNumbers == {ABC123, XYZ789, DEF456, GHI789, AB1230}

C8_MostRecentMatch ==
  \A plateNumber \in PlateNumbers :
    LET hits == {i \in DOMAIN plates : plates[i].plateNumber = plateNumber}
    IN IF hits = {}
       THEN getPlateByNumber(plateNumber) = Null
       ELSE \A i \in hits : getPlateByNumber(plateNumber) = plates[i] \/
                            i < getPlateByNumber(plateNumber).id

\* C9: getRecentPlates(n) returns at most n records, by detectedAt descending,
\* and never a record created later after a record created earlier
C9_RecentFirst ==
  \A n \in 0..(Len(plates) + 1) :
    LET recent == getRecentPlates(n)
    IN /\ Len(recent) <= n
       /\ \A i, j \in DOMAIN recent :
            i < j => /\ recent[i].detectedAt >= recent[j].detectedAt
                     /\ recent[i].id > recent[j].id

\* C10: every record createLicensePlate stores and returns has the id the store
\* assigned, which is the key it is stored under, and the creation time as its
\* detectedAt, whatever the caller's input carries
C10_StoreAssignsIdAndTime ==
  \A k \in DOMAIN plates :
    /\ plates[k].id = k
    /\ plates[k].detectedAt \in 0..now

LastChar(str) == str[Len(str)]
Validated == validation # Unset

\* C11: for every plate string whose last character is the digit 7, 8 or 9,
\* validatePlateInDatabase returns the status "valid"
C11_HighDigitValid ==
  (Validated /\ plateText # <<>> /\ LastChar(plateText) \in {"7", "8", "9"})
    => validation.status = "valid"

C11_Witness ==
  /\ Validated
  /\ Len(plateText) > 6
  /\ LastChar(plateText) = "7"
  /\ validation.status = "valid"

\* C12: validatePlateInDatabase returns "suspended" when the last character is
\* 2 or 3, "expired" when it is 4, 5 or 6, and "other" when it is 0, 1 or not
\* a digit (a letter, the separator, or no character at all)
C12_LowDigitTable ==
  Validated =>
    IF plateText = <<>> THEN validation.status = "other"
    ELSE /\ LastChar(plateText) \in {"2", "3"} => validation.status = "suspended"
         /\ LastChar(plateText) \in {"4", "5", "6"} => validation.status = "expired"
         /\ LastChar(plateText) \in {"0", "1"} => validation.status = "other"
         /\ LastChar(plateText) \notin DOMAIN DigitValue => validation.status = "other"

C12_Witness ==
  /\ Validated
  /\ plateText = <<"A", "A", "A", "-", "3">>
  /\ validation.status = "suspended"

PlateStatus == {"valid", "expired", "suspended", "other"}

\* C13: validatePlateInDatabase returns a result for every string, the empty
\* string included: the call always completes, the status is one of valid,
\* expired, suspended, other, and the details message is not empty
C13_ValidatorTotal ==
  /\ ENABLED ValidatorCall \/ Validated
  /\ Validated => /\ validation.status \in PlateStatus
                  /\ validation.details # ""

C13_Witness ==
  /\ Validated
  /\ plateText = <<>>
  /\ validation.status = "other"
  /\ validation.details = "Information non disponible"

\* C14 as stated: when the recognizer returns "ABC-123" with confidence 0.9,
\* the run returns detected: true, plateNumber "ABC-123", confidence 0.9 and
\* the status "other"
C14_AbcOther ==
  \A r \in Requests :
    (recognitionResult[r] = [plateNumber |-> ABC123, confidence |-> 90]
       /\ pipelineResult[r] # Unset) =>
      /\ pipelineResult[r].detected
      /\ pipelineResult[r].plateNumber = ABC123
      /\ pipelineResult[r].confidence = 90
      /\ pipelineResult[r].status = "other"

\* C14: when the recognizer returns "ABC-123" with confidence 0.9, the run
\* returns detected: true, plateNumber "ABC-123", confidence 0.9 and the
\* status "suspended", the one the table gives for the last character 3
C14_AbcSuspended ==
  \A r \in Requests :
    (recognitionResult[r] = [plateNumber |-> ABC123, confidence |-> 90]
       /\ pipelineResult[r] # Unset) =>
      /\ pipelineResult[r].detected
      /\ pipelineResult[r].plateNumber = ABC123
      /\ pipelineResult[r].confidence = 90
      /\ pipelineResult[r].status = "suspended"

C14_Witness ==
  \E r \in Requests :
    /\ recognitionResult[r] = [plateNumber |-> ABC123, confidence |-> 90]
    /\ "Preprocessed" \in Range(stages[r])
    /\ pc[r] = "Done"
    /\ pipelineResult[r].detected
    /\ pipelineResult[r].status = "suspended"

\* C15: a manual entry of "XYZ-789" produces a stored record with the status
\* "valid" and with the region the plate's length gives (more than 6
\* characters: the second bucket), whatever region the client supplied
C15_ManualRegionFromLength ==
  \A r \in Requests :
    (route[r] = "validate" /\ Persisted(r) /\ newPlate[r].plateNumber = XYZ789) =>
      /\ newPlate[r] \in Range(plates)
      /\ newPlate[r].status = "valid"
      /\ newPlate[r].region = validatePlateInDatabase(XYZ789).region

IsError(resp) == resp.code >= 400 /\ "error" \in DOMAIN resp.body

\* C16: when the store's create fails during a scan or a manual validation,
\* the caller is answered with an error (neither a success nor
\* {detected: false}), nothing is stored and no event is published for the
\* request
C16_CreateFailureSurfaced ==
  /\ \A r \in Requests :
       CreateFailed(r) =>
         /\ pc[r] = "Responded"
         /\ IsError(response[r])
         /\ ~Published(r)
         /\ delivery[r] = Unset
  /\ \A s \in Subscribers :
       Len(inbox[s]) <= Cardinality({r \in Requests : Published(r)})
  /\ Len(plates) = Len(initialPlates) + Cardinality({r \in Requests : Persisted(r)})

\* both routes met a failing create while a subscriber was listening
C16_Witness ==
  \E r, q \in Requests : \E s \in Subscribers :
    /\ route[r] = "scan" /\ route[q] = "validate"
    /\ CreateFailed(r) /\ CreateFailed(q)
    /\ response[r] = [code |-> 500, body |-> [error |-> "Failed to process scan"]]
    /\ response[q] = [code |-> 500, body |-> [error |-> "Failed to validate plate"]]
    /\ readyState[s] = "OPEN"
    /\ inbox[s] = <<>>

\* C17: a scan request is answered with an error only when the create failed:
\* a scan whose record was created is never answered with an error, and a run
\* of the pipeline that failed inside is answered with {detected: false}
C17_ErrorOnlyOnCreateFailure ==
  \A r \in Requests :
    (route[r] = "scan" /\ pc[r] = "Responded" /\ stages[r] # <<>>) =>
      /\ IsError(response[r]) => CreateFailed(r)
      /\ Persisted(r) => ~IsError(response[r])
      /\ stages[r][Len(stages[r])] = "NotDetected" =>
           response[r] = [code |-> 200, body |-> [detected |-> FALSE]]

\* C18: after any sequence of create and update calls, every record of the
\* store carries a status, and it is one of valid, expired, suspended, other
C18_StatusOfTheFour ==
  \A k \in DOMAIN plates :
    /\ "status" \in DOMAIN plates[k]
    /\ plates[k].status \in PlateStatus

\* a record built by the manual route was stored and then updated
C18_Witness ==
  \E k \in DOMAIN plates :
    /\ k > Len(initialPlates)
    /\ plates[k].region = "Canada"
    /\ plates[k].plateNumber = AB1230
    /\ plates[k].status = "valid"
    /\ lastCall = [op |-> "update", id |-> k, data |-> [plateNumber |-> AB1230]]

IsUpdate(call) == call # Unset /\ call.op = "update"

\* C19: updatePlate on an id without a record returns undefined and leaves the
\* store as it was; on an id with a record it stores and returns that record
\* overlaid with the given fields, under the same id and with the same
\* detectedAt, and changes no other record
C19_UpdateOverlays ==
  [][(storeCalls' = storeCalls + 1 /\ IsUpdate(lastCall')) =>
       LET id == lastCall'.id
           data == lastCall'.data
       IN IF id \notin DOMAIN plates
          THEN /\ returned' = Null
               /\ plates' = plates
               /\ currentId' = currentId
          ELSE /\ returned' = plates'[id]
               /\ DOMAIN plates' = DOMAIN plates
               /\ \A k \in DOMAIN plates : k # id => plates'[k] = plates[k]
               /\ DOMAIN plates'[id] = DOMAIN plates[id]
               /\ \A f \in DOMAIN plates[id] :
                    plates'[id][f] = IF f \in DOMAIN data THEN data[f]
                                     ELSE plates[id][f]
               /\ plates'[id].id = plates[id].id
               /\ plates'[id].detectedAt = plates[id].detectedAt
               /\ currentId' = currentId]_vars

\* the first seed record was updated with a new status
C19_Witness ==
  /\ lastCall = [op |-> "update", id |-> 1,
                 data |-> [status |-> "expired", details |-> "La plaque a expire"]]
  /\ returned = plates[1]
  /\ returned.plateNumber = ABC123
  /\ returned.status = "expired"
  /\ returned.id = 1

\* C20: no call removes a record: every record the store holds, each of them
\* returned by a create, is found by getPlateById under its id, and the store
\* never holds fewer records than it started with
C20_NeverRemoved ==
  /\ \A k \in DOMAIN plates : ~Falsy(getPlateById(plates[k].id))
  /\ Len(plates) >= Len(initialPlates)

\* C21: a connection made after an event was published never receives that
\* event: nothing is kept for a connection that is not made yet, and a
\* connection holds only events whose broadcast ran while it was open
C21_NoHistoryForLateSubscribers ==
  \A s \in Subscribers :
    /\ readyState[s] = "NONE" => inbox[s] = <<>>
    /\ \A r \in Requests :
         (Published(r) /\ s \notin delivery[r].open) => ~Received(s, r)
    /\ Len(inbox[s]) <=
         Cardinality({r \in Requests : Published(r) /\ s \in delivery[r].open})

\* t received the event, s connected afterwards and has received nothing
C21_Witness ==
  \E r \in Requests : \E s, t \in Subscribers :
    /\ Published(r) /\ response[r].code = 200
    /\ clients = <<t, s>>
    /\ Received(t, r)
    /\ readyState[s] = "OPEN" /\ s \notin delivery[r].open
    /\ inbox[s] = <<>>

\* C22: connections made or closed around a publish never make the broadcast
\* loop fault (a fault is only ever the raising send of an open connection),
\* and every connection that is open while the loop runs, other than one whose
\* own send raised, receives the event
C22_OpenSubscribersReceive ==
  \A r \in Requests :
    Published(r) =>
      /\ delivery[r].raised \in {0} \cup delivery[r].open
      /\ \A s \in delivery[r].open \ {delivery[r].raised} : Received(s, r)

\* C23: detectPlateRegion never raises: when preprocessing failed its value is
\* null, and otherwise it is the preprocessed image
C23_RegionOrNull ==
  \A r \in Requests :
    /\ plateRegion[r] \in {Unset, Null, Buffer}
    /\ plateRegion[r] = Null <=> stages[r] = <<"Start", "NotDetected">>
    /\ plateRegion[r] = Buffer <=>
         ("Preprocessed" \in Range(stages[r]) /\ "RegionExtracted" \in Range(stages[r]))
    /\ "RegionExtracted" \in Range(stages[r]) => "Preprocessed" \in Range(stages[r])

\* one run lost its image in preprocessing, another got its region
C23_Witness ==
  \E r, q \in Requests :
    /\ plateRegion[r] = Null /\ pipelineResult[r] = NotDetectedResult
    /\ plateRegion[q] = Buffer /\ pc[q] = "RegionExtracted"

\* C24: validatePlateInDatabase derives the region from the length of the
\* string alone: at most 6 characters give the first region, more give the
\* second, whatever the status is
C24_RegionFromLength ==
  Validated =>
    /\ Len(plateText) <= 6 => validation.region = "Quebec"
    /\ Len(plateText) > 6 => validation.region = "Ontario"

\* a string of exactly 6 characters, and a status that is not the seeds'
C24_Witness ==
  /\ Validated
  /\ plateText = <<"A", "A", "A", "A", "-", "5">>
  /\ validation.region = "Quebec"
  /\ validation.status = "expired"

\* C25: the grayscale-and-threshold step applied to its own output gives that
\* output again, for every pixel: the colour channels are already 0 or 255 and
\* the alpha channel is never touched
C25_ThresholdIdempotent ==
  /\ once # Unset => (once.r \in {0, 255} /\ once.a = pixel.a)
  /\ twice # Unset => twice = once

\* a pixel just above the threshold, half transparent
C25_Witness ==
  /\ pixel = [r |-> 128, g |-> 129, b |-> 128, a |-> 128]
  /\ once = [r |-> 255, g |-> 255, b |-> 255, a |-> 128]
  /\ twice = once

\* C26: every result of the reference recognizer is a text of three uppercase
\* letters, the separator and three digits, with a confidence from 0.60 to
\* 0.95, so the confidence gate never rejects it
C26_ReferenceRecognizerShape ==
  synthesized # Unset =>
    /\ Len(synthesized.plateNumber) = 7
    /\ \A i \in 1..3 : synthesized.plateNumber[i] \in Range(letters)
    /\ synthesized.plateNumber[4] = "-"
    /\ \A i \in 5..7 : synthesized.plateNumber[i] \in DOMAIN DigitValue
    /\ synthesized.confidence >= 60 * Scale
    /\ synthesized.confidence <= 95 * Scale
    /\ ~BelowThreshold(Hundredths(synthesized.confidence))

\* Math.random() returned 0 for the confidence: exactly 0.60
C26_Witness ==
  /\ synthesized # Unset
  /\ randoms[7] = 0
  /\ synthesized.confidence = 60 * Scale
  /\ synthesized.plateNumber[1] = "Z"
  /\ synthesized.plateNumber[7] = "9"

RunReturned(r) ==
  \/ pipelineResult[r] = NotDetectedResult
  \/ pipelineResult[r] \notin {Unset, Raise} /\ pipelineResult[r].detected

\* C27: every run of the pipeline terminates: a run that started eventually
\* returns, with detected: true from Done or with detected: false from
\* NotDetected, and stays in no intermediate stage forever
C27_RunTerminates ==
  \A r \in Requests :
    (pc[r] \in {"Start", "Preprocessed", "RegionExtracted", "ConfidenceGated"})
      ~> (pc[r] \in {"Done", "NotDetected"} /\ RunReturned(r))

\* one run ended in Done, the other in NotDetected
C27_Witness ==
  \E r, q \in Requests :
    /\ pc[r] = "Done" /\ pipelineResult[r].detected
    /\ stages[r][Len(stages[r])] = "Done"
    /\ pc[q] = "NotDetected" /\ pipelineResult[q] = NotDetectedResult

\* C28: whenever the recognizer returns a result with a confidence of 0.60 or
\* more, 0.60 itself included, the run returns detected: true with the
\* recognizer's plate number and confidence and with the region, status and
\* details the validator gives for that plate number
C28_AtOrAboveThresholdDetected ==
  \A r \in Requests :
    (Recognized(r) /\ recognitionResult[r].confidence >= 60) =>
      /\ pc[r] # "NotDetected"
      /\ pc[r] # "ConfidenceGated" =>
           LET v == validatePlateInDatabase(recognitionResult[r].plateNumber)
           IN /\ validationResult[r] = v
              /\ pipelineResult[r] =
                   [detected |-> TRUE,
                    plateNumber |-> recognitionResult[r].plateNumber,
                    confidence |-> recognitionResult[r].confidence,
                    region |-> v.region, status |-> v.status,
                    details |-> v.details]

\* the recognizer returned exactly 0.60
C28_Witness ==
  \E r \in Requests :
    /\ recognitionResult[r] = [plateNumber |-> XYZ789, confidence |-> 60]
    /\ pc[r] = "Done"
    /\ pipelineResult[r].detected
    /\ pipelineResult[r].confidence = 60
    /\ pipelineResult[r].status = "valid"
    /\ pipelineResult[r].region = "Ontario"

\* C29: for every plate string, the status and the details the manual route
\* hands to the store are the ones validatePlateInDatabase returns for the
\* string; a status or details in the request body never reaches the record
C29_ManualStatusIsValidators ==
  manualData # Unset =>
    /\ manualData.plateNumber = plateText
    /\ manualData.status = validatePlateInDatabase(plateText).status
    /\ manualData.details = validatePlateInDatabase(plateText).details
    /\ Validated => /\ manualData.status = validation.status
                    /\ manualData.details = validation.details

\* the body said "valid" or "stolen" for a plate whose last character is 3
C29_Witness ==
  /\ Validated
  /\ manualData # Unset
  /\ plateText = <<"A", "A", "A", "-", "3">>
  /\ manualData.region = "USA"
  /\ manualData.status = "suspended"
  /\ manualData.details = "La plaque est suspendue"

\* C30: a scan whose run returned detected: false creates no record, advances
\* no id, publishes no event to any connection and is answered with
\* {detected: false}: records, ids and events come from the other requests only
C30_NotDetectedHasNoEffect ==
  /\ \A r \in Requests :
       (route[r] = "scan" /\ pipelineResult[r] = NotDetectedResult) =>
         /\ pc[r] \in {"NotDetected", "Responded"}
         /\ newPlate[r] = Unset
         /\ event[r] = Unset
         /\ delivery[r] = Unset
         /\ pc[r] = "Responded" =>
              response[r] = [code |-> 200, body |-> [detected |-> FALSE]]
  /\ Len(plates) = Len(initialPlates) + Cardinality({r \in Requests : Persisted(r)})
  /\ currentId = Len(plates) + 1
  /\ \A s \in Subscribers :
       Len(inbox[s]) <= Cardinality({r \in Requests : Published(r)})

\* both scans ended without a detection while a connection was listening
C30_Witness ==
  \E r, q \in Requests : \E s \in Subscribers :
    /\ r # q
    /\ route[r] = "scan" /\ route[q] = "scan"
    /\ pc[r] = "Responded" /\ pc[q] = "Responded"
    /\ pipelineResult[r] = NotDetectedResult /\ pipelineResult[q] = NotDetectedResult
    /\ recognitionResult[r] \in DetectionResults
    /\ plateRegion[q] = Null
    /\ readyState[s] = "OPEN" /\ inbox[s] = <<>>
    /\ Len(plates) = Len(initialPlates) /\ currentId = Len(initialPlates) + 1

EventTypes == {"PLATE_DETECTED", "PLATE_VALIDATED"}

\* C31: the event of a scan has the type PLATE_DETECTED and carries a record
\* with detectionType "automatic", the event of a manual validation has the
\* type PLATE_VALIDATED, and no message of another type reaches a connection
C31_EventTypes ==
  /\ \A r \in Requests :
       Published(r) =>
         /\ route[r] = "scan" =>
              /\ event[r].type = "PLATE_DETECTED"
              /\ event[r].data.detectionType = "automatic"
         /\ route[r] = "validate" => event[r].type = "PLATE_VALIDATED"
  /\ \A s \in Subscribers : \A i \in DOMAIN inbox[s] :
       /\ inbox[s][i].type \in EventTypes
       /\ inbox[s][i].type = "PLATE_DETECTED" =>
            inbox[s][i].data.detectionType = "automatic"

\* one connection received an event of each type
C31_Witness ==
  \E s \in Subscribers :
    /\ Len(inbox[s]) = 2
    /\ inbox[s][1].type = "PLATE_VALIDATED"
    /\ inbox[s][1].data.detectionType = "manual"
    /\ inbox[s][2].type = "PLATE_DETECTED"
    /\ inbox[s][2].data.detectionType = "automatic"

\* C32: whatever the interleaving of scan and validate requests, a connection
\* receives the events in increasing order of the id of the record they carry
C32_EventsInIdOrder ==
  \A s \in Subscribers : \A i, j \in DOMAIN inbox[s] :
    i < j => inbox[s][i].data.id < inbox[s][j].data.id

\* the scan arrived first, the validation stored its record first, and the
\* connection received the validation's event before the scan's
C32_Witness ==
  \E s \in Subscribers :
    /\ route[1] = "scan" /\ route[2] = "validate"
    /\ Persisted(1) /\ Persisted(2)
    /\ Published(1) /\ Published(2)
    /\ newPlate[2].id < newPlate[1].id
    /\ readyState[s] = "OPEN"
    /\ inbox[s] = <<JSONStringify(event[2]), JSONStringify(event[1])>>

\* a request answered on arrival without a call to the store: a scan without
\* image data, or a manual validation whose body fails the schema
Rejects(r) == pc[r] = "Idle" /\ pc'[r] = "Responded" /\ newPlate'[r] = Unset

\* C33: a request rejected as malformed is answered with a 400 error, creates
\* no record, advances no id and publishes no event
C33_MalformedRejected ==
  [][\A r \in Requests :
       Rejects(r) =>
         /\ response'[r].code = 400
         /\ "error" \in DOMAIN response'[r].body
         /\ plates' = plates
         /\ currentId' = currentId
         /\ inbox' = inbox
         /\ event' = event
         /\ microtasks' = microtasks]_vars

\* one malformed request on each route, a connection listening
C33_Witness ==
  \E r, q \in Requests : \E s \in Subscribers :
    /\ route[r] = "scan" /\ stages[r] = <<>>
    /\ response[r] = [code |-> 400, body |-> [error |-> "Image data is required"]]
    /\ route[q] = "validate" /\ newPlate[q] = Unset
    /\ response[q] = [code |-> 400, body |-> [error |-> "Invalid plate data"]]
    /\ readyState[s] = "OPEN" /\ inbox[s] = <<>>
    /\ Len(plates) = Len(initialPlates) /\ currentId = Len(initialPlates) + 1

\* C34: the scanner client has at most one scan request in flight at any time:
\* a capture tick that fires while a request is outstanding sends nothing, and
\* no request is sent while the scanner is inactive or the live connection is
\* down
C34_AtMostOneInFlight ==
  /\ outstanding <= 1
  /\ (lastTick # Unset /\ lastTick.sends) =>
       /\ lastTick.outstanding = 0
       /\ lastTick.isScannerActive
       /\ lastTick.webSocketConnected

====
